---- MODULE Spec2Model ----
(***************************************************************************)
(* Echo detector of node-author-intrusion-echo: process ->                 *)
(* processContainer -> processCondition -> (getTestTokens, filterTokens,   *)
(* inFilter, scoreTokens, calculateScore).                                 *)
(*                                                                         *)
(* JavaScript strings are sequences of one-character strings, an object    *)
(* is a record and a property that was never set is a field missing from   *)
(* the record's domain.                                                    *)
(***************************************************************************)
EXTENDS Integers, Sequences, FiniteSets, TLC

VARIABLES options, content, containers, output, pc, containerIndex,
          tokenPos, conditionPos, testTokens, last, call

vars == <<options, content, containers, output, pc, containerIndex,
          tokenPos, conditionPos, testTokens, last, call>>

(***************************************************************************)
(* Bounds of the model.                                                    *)
(***************************************************************************)
MaxStrLen == 2
MaxTokens == 3
MaxRange == 2

(***************************************************************************)
(* Strings.                                                                *)
(***************************************************************************)
\* The value of a property read that finds nothing: include[-1] where a
\* character is expected, token["nofield"] where a string is expected.
Undefined == "undefined"
UndefinedValue == <<Undefined>>

\* String(value), as regex.test applies it to its argument.
StringOf(value) ==
    IF value = UndefinedValue
    THEN <<"u", "n", "d", "e", "f", "i", "n", "e", "d">>
    ELSE value

\* Characters the enumerated patterns and values are made of.
Alphabet == {"a", "N", ".", "*", "(", "/"}

RECURSIVE StringsOfLen(_)
StringsOfLen(n) ==
    IF n = 0 THEN {<<>>}
    ELSE {Append(s, c) : s \in StringsOfLen(n - 1), c \in Alphabet}

Strings == UNION {StringsOfLen(n) : n \in 0..MaxStrLen}

\* s[i] of a JavaScript string, i counted from 0.
CharAt(s, i) == IF i \in 0..(Len(s) - 1) THEN s[i + 1] ELSE Undefined

\* s.substring(from, to) of a JavaScript string: NaN and negatives count as
\* 0, values over the length as the length, and the two ends are swapped
\* when from > to.
Clamp(s, n) == IF n < 0 THEN 0 ELSE IF n > Len(s) THEN Len(s) ELSE n

Substring(s, from, to) ==
    LET a == Clamp(s, from)
        b == Clamp(s, to)
        lo == IF a < b THEN a ELSE b
        hi == IF a < b THEN b ELSE a
    IN  SubSeq(s, lo + 1, hi)

(***************************************************************************)
(* RegExp: the part of the ECMAScript pattern language the alphabet can    *)
(* spell. "^" and "$" are assertions, "." is any character, "*" repeats    *)
(* the atom before it, "(" opens a group and any other character is        *)
(* itself.                                                                 *)
(***************************************************************************)
\* new RegExp(source) throws SyntaxError: a "(" is never closed (no ")" can
\* be spelled), a "*" needs an atom to repeat.
RegExpThrows(source) ==
    \E i \in 1..Len(source) :
        \/ source[i] = "("
        \/ /\ source[i] = "*"
           /\ \/ i = 1
              \/ source[i - 1] \in {"^", "$", "*", "("}

AtomMatches(atom, ch) == atom = "." \/ atom = ch

\* Does source, from position i on, match s starting at position j?
RECURSIVE MatchHere(_, _, _, _)
MatchHere(source, i, s, j) ==
    IF i > Len(source) THEN TRUE
    ELSE IF source[i] = "^" THEN j = 1 /\ MatchHere(source, i + 1, s, j)
    ELSE IF source[i] = "$" THEN j = Len(s) + 1 /\ MatchHere(source, i + 1, s, j)
    ELSE IF i < Len(source) /\ source[i + 1] = "*"
         THEN \E k \in j..(Len(s) + 1) :
                  /\ \A m \in j..(k - 1) : AtomMatches(source[i], s[m])
                  /\ MatchHere(source, i + 2, s, k)
    ELSE /\ j <= Len(s)
         /\ AtomMatches(source[i], s[j])
         /\ MatchHere(source, i + 1, s, j + 1)

\* regex.test(s): a match starting anywhere in s.
RegExpTest(source, s) == \E j \in 1..(Len(s) + 1) : MatchHere(source, 1, s, j)

(***************************************************************************)
(* inFilter                                                                *)
(***************************************************************************)
\* include[0] === "/" && include[-1] === "/"
IsRegexInclude(include) ==
    CharAt(include, 0) = "/" /\ CharAt(include, 0 - 1) = "/"

\* The source handed to new RegExp for one include.
IncludeSource(include) ==
    IF IsRegexInclude(include)
    THEN Substring(include, 1, Len(include) - 2)
    ELSE <<"^">> \o include \o <<"$">>

\* The loop over options.includes from position i: "true" at the first
\* include that matches, "false" at the end of the list, "TypeError" when
\* an include reached before that is undefined (include[0] of undefined)
\* and "SyntaxError" when it is not a regular expression.
RECURSIVE InFilterFrom(_, _, _)
InFilterFrom(includes, value, i) ==
    IF i > Len(includes) THEN "false"
    ELSE IF includes[i] = UndefinedValue THEN "TypeError"
    ELSE IF RegExpThrows(IncludeSource(includes[i])) THEN "SyntaxError"
    ELSE IF RegExpTest(IncludeSource(includes[i]), StringOf(value)) THEN "true"
    ELSE InFilterFrom(includes, value, i + 1)

inFilter(opts, value) ==
    IF "includes" \notin DOMAIN opts \/ Len(opts.includes) = 0
    THEN "true"
    ELSE InFilterFrom(opts.includes, value, 1)

Thrown == {"TypeError", "SyntaxError"}

(***************************************************************************)
(* Tokens and the window                                                   *)
(***************************************************************************)
\* token[field]
FieldOf(token, field) ==
    IF field \in DOMAIN token THEN token[field] ELSE UndefinedValue

Abs(n) == IF n < 0 THEN 0 - n ELSE n

\* The for-in loop of getTestTokens from position i of tokens.
RECURSIVE GetTestTokensFrom(_, _, _, _)
GetTestTokensFrom(range, index, tokens, i) ==
    IF i > Len(tokens) THEN <<>>
    ELSE LET token == tokens[i]
             distance == Abs(token.index - index)
             rest == GetTestTokensFrom(range, index, tokens, i + 1)
         IN  IF distance > 0 /\ distance <= range
             THEN <<token>> \o rest
             ELSE rest

\* getTestTokens without "distance > 0": the center token is in its window.
getTestTokens_WithCenter(opts, index, tokens) ==
    SelectSeq(tokens, LAMBDA t : Abs(t.index - index) <= opts.range)

\* getTestTokens without the upper limit on the distance.
getTestTokens_Unbounded(opts, index, tokens) ==
    SelectSeq(tokens, LAMBDA t : Abs(t.index - index) > 0)

\* getTestTokens with "distance < range" for the far end of the window.
getTestTokens_OffByOne(opts, index, tokens) ==
    GetTestTokensFrom(opts.range - 1, index, tokens, 1)

getTestTokens(opts, index, tokens) ==
    GetTestTokensFrom(opts.range, index, tokens, 1)

(***************************************************************************)
(* filterTokens                                                            *)
(***************************************************************************)
\* The loop over the filters that asks the filter at i and no filter after it.
AnyFilterFrom_FirstOnly(filters, testToken, i) ==
    IF i > Len(filters) THEN "false"
    ELSE inFilter(filters[i], FieldOf(testToken, filters[i].field))

\* The loop over the filters for one test token, from filter i: "true" at
\* the first filter the token is in (push, break), "false" when no filter
\* takes it, or what inFilter threw.
RECURSIVE AnyFilterFrom(_, _, _)
AnyFilterFrom(filters, testToken, i) ==
    IF i > Len(filters) THEN "false"
    ELSE LET r == inFilter(filters[i], FieldOf(testToken, filters[i].field))
         IN  IF r = "false" THEN AnyFilterFrom(filters, testToken, i + 1)
             ELSE r

\* The loop over tokens from position i with the list built so far.
RECURSIVE FilterTokensFrom(_, _, _, _, _)
FilterTokensFrom(baseToken, filters, tokens, i, filteredTokens) ==
    IF i > Len(tokens) THEN [threw |-> "no", tokens |-> filteredTokens]
    ELSE IF baseToken.index = tokens[i].index
         THEN FilterTokensFrom(baseToken, filters, tokens, i + 1, filteredTokens)
    ELSE LET r == AnyFilterFrom(filters, tokens[i], 1)
         IN  IF r \in Thrown THEN [threw |-> r, tokens |-> <<>>]
             ELSE FilterTokensFrom(baseToken, filters, tokens, i + 1,
                      IF r = "true" THEN Append(filteredTokens, tokens[i])
                      ELSE filteredTokens)

filterTokens(baseToken, filters, tokens) ==
    FilterTokensFrom(baseToken, filters, tokens, 1, <<>>)

(***************************************************************************)
(* Scoring                                                                 *)
(***************************************************************************)
\* calculateScore with "score[2] * x" for the quadratic term.
calculateScore_NoSquare(score, x) ==
    (IF Len(score) > 0 THEN score[1] ELSE 0)
    + (IF Len(score) > 1 THEN score[2] * x ELSE 0)
    + (IF Len(score) > 2 THEN score[3] * x ELSE 0)

calculateScore(score, x) ==
    (IF Len(score) > 0 THEN score[1] ELSE 0)
    + (IF Len(score) > 1 THEN score[2] * x ELSE 0)
    + (IF Len(score) > 2 THEN score[3] * x * x ELSE 0)

\* range - distance, the argument scoreTokens hands to calculateScore.
\* The offset without Math.abs on the distance.
Offset_Signed(range, index, token) == range - (token.index - index)

Offset(range, index, token) == range - Abs(token.index - index)

\* The for-in loop of scoreTokens from position i, tokenScore so far.
RECURSIVE ScoreTokensFrom(_, _, _, _, _, _)
ScoreTokensFrom(range, score, index, tokens, i, tokenScore) ==
    IF i > Len(tokens) THEN tokenScore
    ELSE ScoreTokensFrom(range, score, index, tokens, i + 1,
             tokenScore + calculateScore(score, Offset(range, index, tokens[i])))

scoreTokens(opts, condition, index, tokens) ==
    ScoreTokensFrom(opts.range, condition.score, index, tokens, 1, 0)

(***************************************************************************)
(* processCondition                                                        *)
(***************************************************************************)
\* output.writeError / output.writeWarning append one message to the sink.
Diagnostic(severity, message, location) ==
    [severity |-> severity, message |-> message, location |-> location]

\* The message with the count of the other uses only.
EchoMessage_OtherTimes(opts, condition, token, filteredTokens, tokenScore) ==
    [text |-> token.text,
     value |-> FieldOf(token, condition.field),
     times |-> Len(filteredTokens),
     range |-> opts.range,
     score |-> tokenScore]

\* token.text + ": " + token[condition.field] + " was used " + (n + 1)
\* + " times in " + options.range + " tokens. (Score " + tokenScore + ")",
\* kept as the values that are concatenated.
EchoMessage(opts, condition, token, filteredTokens, tokenScore) ==
    [text |-> token.text,
     value |-> FieldOf(token, condition.field),
     times |-> Len(filteredTokens) + 1,
     range |-> opts.range,
     score |-> tokenScore]

\* var filters = condition.filters; if (!filters) { one filter on
\* condition.field that includes the token's own value }. An array, empty or
\* not, is truthy.
ResolveFilters(condition, token) ==
    IF "filters" \in DOMAIN condition
    THEN condition.filters
    ELSE <<[field |-> condition.field,
            includes |-> <<FieldOf(token, condition.field)>>]>>

\* What one call of processCondition does: how far it got (step), what it
\* threw, the values it computed on the way and the messages it wrote.
Outcome(step, threw, gate, filters, filtered, score, emitted) ==
    [step |-> step, threw |-> threw, gate |-> gate, filters |-> filters,
     filteredTokens |-> filtered, tokenScore |-> score, emitted |-> emitted]

\* processCondition without its first check: every token passes.
Gate_Open(condition, token) == "true"

\* if (!inFilter(condition, token[condition.field])) { return; }
Gate(condition, token) == inFilter(condition, FieldOf(token, condition.field))

\* Severity with "tokenScore > condition.error" for the error check.
Severity_StrictError(condition, tokenScore) ==
    IF tokenScore < condition.warning THEN "none"
    ELSE IF tokenScore > condition.error THEN "error"
    ELSE "warning"

\* Severity with the error check made first.
Severity_ErrorFirst(condition, tokenScore) ==
    IF tokenScore >= condition.error THEN "error"
    ELSE IF tokenScore < condition.warning THEN "none"
    ELSE "warning"

\* The checks of tokenScore against the thresholds: "none" below warning,
\* "error" from error on, "warning" between.
Severity(condition, tokenScore) ==
    IF tokenScore < condition.warning THEN "none"
    ELSE IF tokenScore >= condition.error THEN "error"
    ELSE "warning"

\* processCondition without "if (filteredTokens.length == 0) return".
processCondition_NoEmptyCheck(opts, condition, token, tests) ==
    LET gate == Gate(condition, token)
        filters == ResolveFilters(condition, token)
        filtered == filterTokens(token, filters, tests)
        tokenScore == scoreTokens(opts, condition, token.index, filtered.tokens)
        severity == Severity(condition, tokenScore)
        message == EchoMessage(opts, condition, token, filtered.tokens, tokenScore)
    IN  IF gate \in Thrown
        THEN Outcome("gate", gate, gate, <<>>, <<>>, 0, <<>>)
        ELSE IF gate = "false"
        THEN Outcome("gate", "no", gate, <<>>, <<>>, 0, <<>>)
        ELSE IF filtered.threw # "no"
        THEN Outcome("filter", filtered.threw, gate, filters, <<>>, 0, <<>>)
        ELSE IF severity = "none"
        THEN Outcome("threshold", "no", gate, filters, filtered.tokens,
                     tokenScore, <<>>)
        ELSE Outcome("write", "no", gate, filters, filtered.tokens, tokenScore,
                     <<Diagnostic(severity, message, token.location)>>)

processCondition(opts, condition, token, tests) ==
    LET gate == Gate(condition, token)
        filters == ResolveFilters(condition, token)
        filtered == filterTokens(token, filters, tests)
        tokenScore == scoreTokens(opts, condition, token.index, filtered.tokens)
        severity == Severity(condition, tokenScore)
        message == EchoMessage(opts, condition, token, filtered.tokens, tokenScore)
    IN  IF gate \in Thrown
        THEN Outcome("gate", gate, gate, <<>>, <<>>, 0, <<>>)
        ELSE IF gate = "false"
        THEN Outcome("gate", "no", gate, <<>>, <<>>, 0, <<>>)
        ELSE IF filtered.threw # "no"
        THEN Outcome("filter", filtered.threw, gate, filters, <<>>, 0, <<>>)
        ELSE IF Len(filtered.tokens) = 0
        THEN Outcome("filter", "no", gate, filters, <<>>, 0, <<>>)
        ELSE IF severity = "none"
        THEN Outcome("threshold", "no", gate, filters, filtered.tokens,
                     tokenScore, <<>>)
        ELSE Outcome("write", "no", gate, filters, filtered.tokens, tokenScore,
                     <<Diagnostic(severity, message, token.location)>>)

(***************************************************************************)
(* The inputs: content, its scoped containers, the options.                *)
(***************************************************************************)
Word(text, normalized, partOfSpeech) ==
    [text |-> text, normalized |-> normalized, stem |-> normalized,
     partOfSpeech |-> partOfSpeech]

\* What the splitter and the tagger make of "a", "A", "." and "(".
WordA == Word(<<"a">>, <<"a">>, <<"N", "N">>)
WordCapA == Word(<<"A">>, <<"a">>, <<"N", "N">>)
WordDot == Word(<<".">>, <<".">>, <<".">>)
WordParen == Word(<<"(">>, <<"(">>, <<"(">>)

Lexicon == {WordA, WordCapA, WordDot, WordParen}

Token(index, word) ==
    [index |-> index, text |-> word.text, normalized |-> word.normalized,
     stem |-> word.stem, partOfSpeech |-> word.partOfSpeech,
     location |-> [path |-> "a", line |-> 0, column |-> index]]

\* The token lists of n words of a lexicon; a token's index is its place in
\* the content, counted from 0.
TokenLists(lexicon, n) ==
    {[i \in 1..n |-> Token(i - 1, ws[i])] : ws \in [1..n -> lexicon]}

\* What content.getScopedTokens(scope) may answer: the whole content as one
\* container, or the content cut into two.
ScopedTokens(tokens) ==
    IF Len(tokens) = 0 THEN {<<>>}
    ELSE {<<[tokens |-> tokens]>>}
         \cup {<<[tokens |-> SubSeq(tokens, 1, k)],
                 [tokens |-> SubSeq(tokens, k + 1, Len(tokens))]>> :
               k \in 1..(Len(tokens) - 1)}

Contents(lexicon, lengths, cut) ==
    UNION {{[tokens |-> ts, scoped |-> sc] :
                sc \in IF cut THEN ScopedTokens(ts) ELSE {<<[tokens |-> ts]>>}} :
           ts \in UNION {TokenLists(lexicon, n) : n \in lengths}}

Options(range, conditions) ==
    [range |-> range, scope |-> "document", conditions |-> conditions]

OptionsNoRange(conditions) ==
    [scope |-> "document", conditions |-> conditions]

Condition(field, score, warning, error) ==
    [field |-> field, score |-> score, warning |-> warning, error |-> error]

WithIncludes(condition, includes) ==
    [f \in DOMAIN condition \cup {"includes"} |->
        IF f = "includes" THEN includes ELSE condition[f]]

WithFilters(condition, filters) ==
    [f \in DOMAIN condition \cup {"filters"} |->
        IF f = "filters" THEN filters ELSE condition[f]]

Filter(field, includes) == [field |-> field, includes |-> includes]

NN == <<"N", "N">>
VB == <<"V", "B">>

\* Every way options.range is set or left out.
RangeOptions(conditions) ==
    {OptionsNoRange(conditions)}
    \cup {Options(r, conditions) : r \in (0 - 1)..MaxRange}

BaseCondition == Condition("normalized", <<1>>, 1, 2)

\* The window: every content and every cut of it, every range.
WindowInputs ==
    {[options |-> o, content |-> c] :
        o \in RangeOptions(<<BaseCondition>>),
        c \in Contents(Lexicon, 0..MaxTokens, TRUE)}

\* The gate of a condition: its field and its own includes.
GatedConditions ==
    {Condition("normalized", <<1>>, 1, 2),
     Condition("partOfSpeech", <<1>>, 1, 2),
     WithIncludes(Condition("normalized", <<1>>, 1, 2), <<>>),
     WithIncludes(Condition("normalized", <<1>>, 1, 2), <<<<".">>>>),
     WithIncludes(Condition("partOfSpeech", <<1>>, 1, 2), <<NN>>)}

FilterLists ==
    {<<>>,
     <<Filter("text", <<<<"a">>>>)>>,
     <<[field |-> "partOfSpeech"]>>,
     <<Filter("normalized", <<>>)>>,
     <<Filter("text", <<<<"a">>>>), Filter("partOfSpeech", <<NN>>)>>,
     <<Filter("partOfSpeech", <<VB>>), Filter("normalized", <<<<"a">>>>)>>,
     <<Filter("normalized", <<<<"a">>, <<"(">>>>)>>,
     <<Filter("normalized", <<<<".">>>>)>>,
     <<Filter("partOfSpeech", <<<<"N", "*">>>>)>>,
     <<Filter("partOfSpeech", <<<<"/", "^", "N", "/">>>>)>>}

\* The gates that are combined with every list of filters.
FilteredGates ==
    {Condition("normalized", <<1>>, 1, 2),
     WithIncludes(Condition("normalized", <<1>>, 1, 2), <<<<".">>>>),
     WithIncludes(Condition("partOfSpeech", <<1>>, 1, 2), <<NN>>)}

FilterConditions ==
    GatedConditions
    \cup {WithFilters(c, fs) : c \in FilteredGates, fs \in FilterLists}

\* Filtering: every content in one container, the widest range.
FilterInputs ==
    {[options |-> Options(MaxRange, <<cond>>), content |-> c] :
        cond \in FilterConditions,
        c \in Contents(Lexicon \ {WordParen}, 1..MaxTokens, FALSE)}

\* The range and the thresholds of the tests.
TestRange == 100
TestWarning == 25
TestError == 100

ScoreLists ==
    {<<>>, <<1>>, <<0, 1>>, <<1, 1>>, <<0, 0, 1>>, <<1, 2, 3>>,
     <<0 - 1, 1>>, <<0, 0, 1, 5>>}

\* <<warning, error>>
Thresholds ==
    {<<1, 2>>, <<1, 1>>, <<0, 0>>, <<2, 5>>, <<0 - 1, 0>>, <<3, 1>>, <<0, 3>>,
     <<TestWarning, TestError>>}

\* Scoring: every coefficient list against every pair of thresholds.
ScoreInputs ==
    {[options |-> Options(r, <<Condition("normalized", sc, th[1], th[2])>>),
      content |-> c] :
        r \in 1..MaxRange \cup {TestRange}, sc \in ScoreLists, th \in Thresholds,
        c \in Contents({WordA, WordDot}, 1..MaxTokens, FALSE)}

\* Several conditions, or none.
ManyInputs ==
    {[options |-> Options(MaxRange, conds), content |-> c] :
        conds \in {<<>>,
                   <<BaseCondition,
                     WithIncludes(Condition("partOfSpeech", <<1>>, 1, 2), <<NN>>)>>},
        c \in Contents({WordA, WordDot}, 1..MaxTokens, TRUE)
                  \cup Contents({WordA}, 1..(MaxTokens + 1), TRUE)}

\* The field names the options classes document as acceptable.
LegalFields == {"text", "normalized", "stem", "partOfSpeech"}

\* A condition, or a filter, on a field that no token has.
UnknownFieldConditions ==
    {Condition("nofield", <<1>>, 1, 2),
     WithIncludes(Condition("nofield", <<1>>, 1, 2), <<<<"a">>>>),
     WithFilters(Condition("nofield", <<1>>, 1, 2),
                 <<Filter("normalized", <<<<"a">>>>)>>),
     WithFilters(BaseCondition, <<Filter("nofield", <<<<"a">>>>)>>),
     WithFilters(BaseCondition, <<[field |-> "nofield"]>>)}

UnknownFieldInputs ==
    {[options |-> Options(MaxRange, <<cond>>), content |-> c] :
        cond \in UnknownFieldConditions,
        c \in Contents({WordA, WordDot}, 1..MaxTokens, FALSE)}

Inputs ==
    WindowInputs \cup FilterInputs \cup ScoreInputs \cup ManyInputs
        \cup UnknownFieldInputs

(***************************************************************************)
(* process                                                                 *)
(***************************************************************************)
NoCall == [called |-> FALSE]
NoUnitCall == [fn |-> "none"]

Init ==
    /\ \E in \in Inputs :
        /\ options = in.options
        /\ content = in.content
    /\ containers = <<>>
    /\ output = <<>>
    /\ pc = "process"
    /\ containerIndex = 0
    /\ tokenPos = 0
    /\ conditionPos = 0
    /\ testTokens = <<>>
    /\ last = NoCall
    /\ call = NoUnitCall

\* if (!range): undefined and 0 are falsy.
RangeUnset(opts) == "range" \notin DOMAIN opts \/ opts.range = 0

RangeMessage == [analysis |-> "Echo", text |-> ": options.range must be set."]

\* process, up to the loop over the containers.
ProcessEntry ==
    /\ pc = "process"
    /\ IF RangeUnset(options)
       THEN IF Len(content.tokens) = 0
            THEN \* args.content.tokens[0].location of undefined
                 /\ pc' = "threw"
                 /\ UNCHANGED <<output, containers>>
            ELSE /\ output' = Append(output,
                       Diagnostic("error", RangeMessage, content.tokens[1].location))
                 /\ pc' = "returned"
                 /\ UNCHANGED containers
       ELSE /\ containers' = content.scoped
            /\ pc' = "containers"
            /\ UNCHANGED output
    /\ UNCHANGED <<options, content, containerIndex, tokenPos, conditionPos,
                   testTokens, last, call>>

\* for (var containerIndex in containers): the next container, or the end
\* of process.
ForContainers ==
    /\ pc = "containers"
    /\ IF containerIndex < Len(containers)
       THEN /\ containerIndex' = containerIndex + 1
            /\ tokenPos' = 0
            /\ pc' = "tokens"
       ELSE /\ pc' = "returned"
            /\ UNCHANGED <<containerIndex, tokenPos>>
    /\ UNCHANGED <<options, content, containers, output, conditionPos,
                   testTokens, last, call>>

\* processContainer: the next token and its window, or the end of the
\* container.
ForTokens ==
    /\ pc = "tokens"
    /\ LET tokens == containers[containerIndex].tokens
       IN  IF tokenPos < Len(tokens)
           THEN /\ tokenPos' = tokenPos + 1
                /\ testTokens' = getTestTokens(options, tokens[tokenPos + 1].index, tokens)
                /\ conditionPos' = 0
                /\ pc' = "conditions"
           ELSE /\ pc' = "containers"
                /\ UNCHANGED <<tokenPos, testTokens, conditionPos>>
    /\ UNCHANGED <<options, content, containers, output, containerIndex,
                   last, call>>

\* The conditions handed out last to first.
NextCondition_Reversed(opts, done) ==
    opts.conditions[Len(opts.conditions) - done]

\* The condition the for-of loop over options.conditions hands out after
\* done conditions.
NextCondition(opts, done) == opts.conditions[done + 1]

\* The resolved filters stored in the condition: condition.filters = filters.
OptionsAfter_Stored(opts, pos, outcome) ==
    IF outcome.step = "gate" THEN opts
    ELSE [opts EXCEPT !.conditions[pos] = WithFilters(@, outcome.filters)]

\* The options after a call of processCondition on the condition at
\* position pos: "var filters = condition.filters" is a local, the resolved
\* filters are not stored and the options are what they were.
OptionsAfter(opts, pos, outcome) == opts

\* The arguments scoreTokens hands to calculateScore, one for each token.
ScoreOffsets(opts, index, tokens) ==
    [i \in 1..Len(tokens) |-> Offset(opts.range, index, tokens[i])]

\* for (var condition of options.conditions) processCondition(...): the
\* next condition on the current token, or the end of the conditions. What
\* processCondition throws leaves process.
ForConditions ==
    /\ pc = "conditions"
    /\ IF conditionPos < Len(options.conditions)
       THEN LET token == containers[containerIndex].tokens[tokenPos]
                condition == NextCondition(options, conditionPos)
                outcome == processCondition(options, condition, token, testTokens)
            IN  /\ conditionPos' = conditionPos + 1
                /\ output' = output \o outcome.emitted
                /\ options' = OptionsAfter(options, conditionPos + 1, outcome)
                /\ last' = [called |-> TRUE, container |-> containerIndex,
                            token |-> token, condition |-> condition,
                            testTokens |-> testTokens, outcome |-> outcome,
                            offsets |-> ScoreOffsets(options, token.index,
                                                     outcome.filteredTokens)]
                /\ pc' = IF outcome.threw = "no" THEN "conditions" ELSE "threw"
       ELSE /\ pc' = "tokens"
            /\ UNCHANGED <<conditionPos, output, last, options>>
    /\ UNCHANGED <<content, containers, containerIndex, tokenPos,
                   testTokens, call>>

Next == ProcessEntry \/ ForContainers \/ ForTokens \/ ForConditions

Spec == Init /\ [][Next]_vars

(***************************************************************************)
(* process called twice with the same arguments: the same options, content *)
(* and output objects. call keeps the arguments as they were given and     *)
(* what the first call left.                                               *)
(***************************************************************************)
InitTwice ==
    /\ \E in \in Inputs :
        /\ options = in.options
        /\ content = in.content
    /\ containers = <<>>
    /\ output = <<>>
    /\ pc = "process"
    /\ containerIndex = 0
    /\ tokenPos = 0
    /\ conditionPos = 0
    /\ testTokens = <<>>
    /\ last = NoCall
    /\ call = [fn |-> "process", calls |-> 1, options |-> options,
               content |-> content, output |-> <<>>, pc |-> "process"]

\* The second call of process, once the first has returned or thrown: its
\* locals start afresh, its arguments are the objects of the first call.
ProcessAgain ==
    /\ pc \in {"returned", "threw"}
    /\ call.calls = 1
    /\ call' = [call EXCEPT !.calls = 2, !.output = output, !.pc = pc]
    /\ pc' = "process"
    /\ containers' = <<>>
    /\ containerIndex' = 0
    /\ tokenPos' = 0
    /\ conditionPos' = 0
    /\ testTokens' = <<>>
    /\ last' = NoCall
    /\ UNCHANGED <<options, content, output>>

NextTwice == Next \/ ProcessAgain

SpecTwice == InitTwice /\ [][NextTwice]_vars

(***************************************************************************)
(* inFilter on its own: every include list against every value.            *)
(***************************************************************************)
RegexN == <<"/", "^", "N", "/">>

Patterns == Strings \cup {RegexN, <<"/", "N", "/">>, <<"/", ".", "/">>}

Values == Strings \cup {VB}

IncludeLists ==
    {<<>>}
    \cup {<<p>> : p \in Patterns}
    \cup {<<p, q>> : p \in {<<"a">>, <<"(">>, RegexN}, q \in {NN, <<".">>}}

IncludeOptions ==
    {[field |-> "partOfSpeech"]}
    \cup {Filter("partOfSpeech", l) : l \in IncludeLists}

InitMatch ==
    /\ \E o \in IncludeOptions, v \in Values :
        call = [fn |-> "inFilter", options |-> o, value |-> v, ret |-> "pending"]
    /\ options = OptionsNoRange(<<>>)
    /\ content = [tokens |-> <<>>, scoped |-> <<>>]
    /\ containers = <<>>
    /\ output = <<>>
    /\ pc = "inFilter"
    /\ containerIndex = 0
    /\ tokenPos = 0
    /\ conditionPos = 0
    /\ testTokens = <<>>
    /\ last = NoCall

InFilterCall ==
    /\ pc = "inFilter"
    /\ LET ret == inFilter(call.options, call.value)
       IN  /\ call' = [call EXCEPT !.ret = ret]
           /\ pc' = IF ret \in Thrown THEN "threw" ELSE "returned"
    /\ UNCHANGED <<options, content, containers, output, containerIndex,
                   tokenPos, conditionPos, testTokens, last>>

NextMatch == InFilterCall

SpecMatch == InitMatch /\ [][NextMatch]_vars

(***************************************************************************)
(* Properties                                                              *)
(***************************************************************************)
Range(seq) == {seq[i] : i \in 1..Len(seq)}

NoDuplicates(seq) == Cardinality(Range(seq)) = Len(seq)

\* The token the loop of processContainer is on.
CurrentTokens == containers[containerIndex].tokens
CurrentToken == CurrentTokens[tokenPos]

\* The last call of processCondition got as far as scoring: its gate let the
\* token in and its filtered set is not empty.
Scored == last.called /\ last.outcome.filteredTokens # <<>>

\* C1: with warning <= error and a filtered set that is not empty,
\* processCondition writes nothing when the score is below warning, one
\* warning when warning <= score < error and one error when score >= error.
C1_Thresholds ==
    (Scored /\ last.condition.warning <= last.condition.error) =>
        LET tokenScore == last.outcome.tokenScore
            emitted == last.outcome.emitted
        IN  /\ tokenScore < last.condition.warning => emitted = <<>>
            /\ (last.condition.warning <= tokenScore
                    /\ tokenScore < last.condition.error) =>
                   (Len(emitted) = 1 /\ emitted[1].severity = "warning")
            /\ tokenScore >= last.condition.error =>
                   (Len(emitted) = 1 /\ emitted[1].severity = "error")

\* A score that is exactly the error threshold, above the warning threshold,
\* was written as an error.
C1_Witness ==
    /\ Scored
    /\ last.condition.warning < last.condition.error
    /\ last.outcome.tokenScore = last.condition.error
    /\ Len(last.outcome.emitted) = 1
    /\ last.outcome.emitted[1].severity = "error"
    /\ output # <<>>
    /\ output[Len(output)] = last.outcome.emitted[1]

\* C2: the window of a token holds exactly the tokens of its container at a
\* distance d with 0 < d <= range, each once.
C2_Window ==
    pc = "conditions" =>
        /\ \A t \in Range(CurrentTokens) :
               t \in Range(testTokens) <=>
                   /\ 0 < Abs(t.index - CurrentToken.index)
                   /\ Abs(t.index - CurrentToken.index) <= options.range
        /\ Range(testTokens) \subseteq Range(CurrentTokens)
        /\ NoDuplicates(testTokens)

\* A window that takes a token at the distance range and leaves out a token
\* beyond it.
C2_Witness ==
    /\ pc = "conditions"
    /\ \E t \in Range(testTokens) :
           Abs(t.index - CurrentToken.index) = options.range
    /\ \E t \in Range(CurrentTokens) :
           Abs(t.index - CurrentToken.index) > options.range

\* C3: with options.range absent, zero or negative, process reaches no
\* container and returns with one configuration error in the sink.
C3_RangeGuard ==
    ("range" \notin DOMAIN options \/ options.range <= 0) =>
        /\ containerIndex = 0
        /\ pc = "returned" =>
               /\ Len(output) = 1
               /\ output[1].severity = "error"
               /\ output[1].message = RangeMessage

\* The last call of processCondition filtered its window and filterTokens
\* returned.
Filtered ==
    /\ last.called
    /\ last.outcome.threw = "no"
    /\ last.outcome.step \in {"filter", "threshold", "write"}

\* C4: with neither filters nor includes configured, the filtered set of a
\* token is the set of window tokens whose condition.field value equals the
\* token's own, whatever characters the value is made of.
C4_DefaultFilter ==
    (/\ last.called
     /\ "filters" \notin DOMAIN last.condition
     /\ "includes" \notin DOMAIN last.condition) =>
        /\ last.outcome.threw = "no"
        /\ Range(last.outcome.filteredTokens) =
               {t \in Range(last.testTokens) :
                   FieldOf(t, last.condition.field) =
                       FieldOf(last.token, last.condition.field)}

\* What the text between the delimiters of a "/.../" include is, and
\* whether an include is delimited: two characters at least, the first and
\* the last a "/".
Delimited(include) ==
    Len(include) >= 2 /\ include[1] = "/" /\ include[Len(include)] = "/"

Between(include) == SubSeq(include, 2, Len(include) - 1)

\* The call of inFilter with one include has returned or thrown.
OneIncludeDone ==
    /\ call.fn = "inFilter"
    /\ call.ret # "pending"
    /\ "includes" \in DOMAIN call.options
    /\ Len(call.options.includes) = 1

\* C5: an include of two characters or more that starts and ends with "/"
\* is matched as the regular expression between the delimiters, so "/^N/"
\* takes "NN" and leaves "VB".
C5_DelimitedRegex ==
    (OneIncludeDone /\ Delimited(call.options.includes[1])) =>
        LET source == Between(call.options.includes[1])
        IN  call.ret = IF RegExpThrows(source) THEN "SyntaxError"
                       ELSE IF RegExpTest(source, call.value) THEN "true"
                       ELSE "false"

\* C6: an include that is not a delimited regex matches the values equal to
\* it and no other.
C6_LiteralEquality ==
    (OneIncludeDone /\ ~Delimited(call.options.includes[1])) =>
        call.ret = IF call.value = call.options.includes[1] THEN "true"
                   ELSE "false"

\* One include against one value, as inFilter tests it.
IncludeMatches(include, value) ==
    /\ include # UndefinedValue
    /\ ~RegExpThrows(IncludeSource(include))
    /\ RegExpTest(IncludeSource(include), StringOf(value))

\* A filter, or a condition, lets a value in: it has no includes, or one of
\* its includes matches the value.
LetsIn(opts, value) ==
    \/ "includes" \notin DOMAIN opts
    \/ opts.includes = <<>>
    \/ \E include \in Range(opts.includes) : IncludeMatches(include, value)

\* C7: filterTokens returns the window tokens that at least one filter of
\* the resolved list lets in, each once, however many filters let it in.
C7_AnyFilter ==
    Filtered =>
        /\ \A t \in Range(last.testTokens) :
               t \in Range(last.outcome.filteredTokens) <=>
                   \E f \in Range(last.outcome.filters) :
                       LetsIn(f, FieldOf(t, f.field))
        /\ Range(last.outcome.filteredTokens) \subseteq Range(last.testTokens)
        /\ NoDuplicates(last.outcome.filteredTokens)

\* Of two filters the first refuses a token and the second lets it in, next
\* to a window token that no filter lets in.
C7_Witness ==
    /\ Filtered
    /\ Len(last.outcome.filters) = 2
    /\ \E t \in Range(last.outcome.filteredTokens) :
           /\ ~LetsIn(last.outcome.filters[1], FieldOf(t, last.outcome.filters[1].field))
           /\ LetsIn(last.outcome.filters[2], FieldOf(t, last.outcome.filters[2].field))
    /\ \E t \in Range(last.testTokens) : t \notin Range(last.outcome.filteredTokens)

\* C8: no token of the index of the center token is in the window of the
\* center token or in the filtered set computed for it.
C8_SelfExclusion ==
    /\ pc = "conditions" =>
           \A t \in Range(testTokens) : t.index # CurrentToken.index
    /\ last.called =>
           \A t \in Range(last.outcome.filteredTokens) :
               t.index # last.token.index

\* A filter without includes took the whole window of a token that has
\* neighbours on both sides.
C8_Witness ==
    /\ Filtered
    /\ \E f \in Range(last.outcome.filters) : "includes" \notin DOMAIN f
    /\ last.outcome.filteredTokens = last.testTokens
    /\ \E t \in Range(last.testTokens) : t.index < last.token.index
    /\ \E t \in Range(last.testTokens) : t.index > last.token.index

\* The k-th coefficient of a score list, zero when the list is shorter.
Coefficient(score, k) == IF k <= Len(score) THEN score[k] ELSE 0

Polynomial(score, x) ==
    Coefficient(score, 1) + Coefficient(score, 2) * x
        + Coefficient(score, 3) * x * x

RECURSIVE SumOver(_, _, _, _)
SumOver(tokens, score, range, index) ==
    IF tokens = {} THEN 0
    ELSE LET t == CHOOSE u \in tokens : TRUE
         IN  Polynomial(score, range - Abs(t.index - index))
                 + SumOver(tokens \ {t}, score, range, index)

\* C9: the score is the sum over the filtered set of a + b*x + c*x*x with
\* x = range - distance, as it comes.
C9_ScoreSum ==
    Scored =>
        last.outcome.tokenScore =
            SumOver(Range(last.outcome.filteredTokens), last.condition.score,
                    options.range, last.token.index)

\* A sum of two terms with all three coefficients at work, the offsets 99
\* and 98 of the range of the tests.
C9_Witness ==
    /\ Scored
    /\ last.condition.score = <<1, 2, 3>>
    /\ options.range = TestRange
    /\ Len(last.outcome.filteredTokens) = 2
    /\ last.token.index = 0
    /\ last.outcome.tokenScore = (1 + 2 * 99 + 3 * 99 * 99) + (1 + 2 * 98 + 3 * 98 * 98)

\* C10: a token whose condition.field value the condition's own includes do
\* not let in gets no diagnostic from that condition, and a condition
\* without includes, or with none in the list, stops no token at the gate.
C10_Gate ==
    last.called =>
        /\ ~LetsIn(last.condition, FieldOf(last.token, last.condition.field)) =>
               /\ last.outcome.emitted = <<>>
               /\ last.outcome.step = "gate"
        /\ ("includes" \notin DOMAIN last.condition
                \/ last.condition.includes = <<>>) =>
               last.outcome.step # "gate"

\* A token stopped at the gate although its window holds a token that the
\* condition's filters would have taken and scored over the thresholds.
C10_Witness ==
    /\ last.called
    /\ last.outcome.step = "gate"
    /\ last.outcome.gate = "false"
    /\ LET filters == ResolveFilters(last.condition, last.token)
       IN  \E t \in Range(last.testTokens) :
               \E f \in Range(filters) : LetsIn(f, FieldOf(t, f.field))
    /\ last.condition.warning <= 1

\* The options name a field, in a condition or in a filter, that is not one
\* of the legal field names.
UsesUnknownField(opts) ==
    \E c \in Range(opts.conditions) :
        \/ c.field \notin LegalFields
        \/ /\ "filters" \in DOMAIN c
           /\ \E f \in Range(c.filters) : f.field \notin LegalFields

\* C11: when a condition or a filter names a field that is not a legal field
\* name, process writes a configuration error before it enters any
\* container, calls processCondition for no token and throws nothing.
C11_UnknownField ==
    UsesUnknownField(options) =>
        /\ containerIndex = 0
        /\ ~last.called
        /\ pc # "threw"
        /\ pc = "returned" =>
              /\ Len(output) = 1
              /\ output[1].severity = "error"

\* C12: a diagnostic of processCondition carries the location of the center
\* token and a message made of the token's text, its value for
\* condition.field, options.range, the score of the filtered set, and a count
\* that is the size of the filtered set plus one (the token itself counted).
C12_Message ==
    (last.called /\ last.outcome.emitted # <<>>) =>
        LET d == last.outcome.emitted[1]
            filtered == last.outcome.filteredTokens
        IN  /\ Len(last.outcome.emitted) = 1
            /\ output[Len(output)] = d
            /\ d.location = last.token.location
            /\ d.message.text = last.token.text
            /\ d.message.value = FieldOf(last.token, last.condition.field)
            /\ d.message.range = options.range
            /\ d.message.score =
                   SumOver(Range(filtered), last.condition.score,
                           options.range, last.token.index)
            /\ d.message.times = Len(filtered) + 1

\* C12 as the specification words it: the count in the message is the size
\* of the filtered set.
C12_MessageCount ==
    (last.called /\ last.outcome.emitted # <<>>) =>
        LET d == last.outcome.emitted[1]
        IN  /\ d.location = last.token.location
            /\ d.message.text = last.token.text
            /\ d.message.value = FieldOf(last.token, last.condition.field)
            /\ d.message.range = options.range
            /\ d.message.score = last.outcome.tokenScore
            /\ d.message.times = Len(last.outcome.filteredTokens)

\* A diagnostic on two other uses: the message says three times.
C12_Witness ==
    /\ last.called
    /\ last.outcome.emitted # <<>>
    /\ Len(last.outcome.filteredTokens) = 2
    /\ last.outcome.emitted[1].message.times = 3
    /\ last.outcome.emitted[1].location.column = last.token.index

\* The distance of the token at place i of the last filtered set from the
\* center token.
DistanceAt(i) == Abs(last.outcome.filteredTokens[i].index - last.token.index)

\* C13: the offset handed to calculateScore for a candidate is range minus
\* its distance: range - 1 for a token next to the center token, 0 for a
\* token at the edge of the window (distance = range).
C13_Offset ==
    last.called =>
        /\ Len(last.offsets) = Len(last.outcome.filteredTokens)
        /\ \A i \in 1..Len(last.offsets) :
              /\ last.offsets[i] = options.range - DistanceAt(i)
              /\ DistanceAt(i) = 1 => last.offsets[i] = options.range - 1
              /\ DistanceAt(i) = options.range => last.offsets[i] = 0

\* C13 as the specification words it: the offset of a token next to the
\* center token is range.
C13_OffsetAdjacent ==
    last.called =>
        \A i \in 1..Len(last.offsets) :
            /\ last.offsets[i] = options.range - DistanceAt(i)
            /\ DistanceAt(i) = 1 => last.offsets[i] = options.range
            /\ DistanceAt(i) = options.range => last.offsets[i] = 0

\* A token with a scored neighbour on each side and a scored token at the
\* edge of its window, range being more than one.
C13_Witness ==
    /\ Scored
    /\ options.range > 1
    /\ \E i, j, k \in 1..Len(last.offsets) :
          /\ last.outcome.filteredTokens[i].index = last.token.index - 1
          /\ last.outcome.filteredTokens[j].index = last.token.index + 1
          /\ DistanceAt(k) = options.range
          /\ last.offsets[i] = options.range - 1
          /\ last.offsets[j] = options.range - 1
          /\ last.offsets[k] = 0

\* C14: no offset handed to calculateScore is negative.
C14_NonNegative ==
    last.called => \A i \in 1..Len(last.offsets) : last.offsets[i] >= 0

\* A scored token whose container holds a token beyond its window, and whose
\* filtered set reaches the edge of the window.
C14_Witness ==
    /\ Scored
    /\ \E t \in Range(containers[last.container].tokens) :
          Abs(t.index - last.token.index) > options.range
    /\ \E i \in 1..Len(last.offsets) : last.offsets[i] = 0

\* The filters the specification has processCondition use.
SpecifiedFilters(condition, token) ==
    IF "filters" \notin DOMAIN condition \/ condition.filters = <<>>
    THEN <<[field |-> condition.field,
            includes |-> <<FieldOf(token, condition.field)>>]>>
    ELSE condition.filters

\* C15: past its gate, processCondition filters the window with one filter
\* on condition.field that includes the token's own value when
\* condition.filters is absent or empty, and with condition.filters when it
\* is a list that is not empty.
C15_FilterResolution ==
    (last.called /\ last.outcome.step # "gate") =>
        /\ last.outcome.filters = SpecifiedFilters(last.condition, last.token)
        /\ last.outcome.threw = "no" =>
              last.outcome.filteredTokens =
                  filterTokens(last.token,
                               SpecifiedFilters(last.condition, last.token),
                               last.testTokens).tokens

\* No filter of the resolved list lets a token of the window in.
NothingLetIn ==
    \A t \in Range(last.testTokens) :
        \A f \in Range(ResolveFilters(last.condition, last.token)) :
            ~LetsIn(f, FieldOf(t, f.field))

\* C16: a call of processCondition whose filtered set is empty writes
\* nothing, whatever the thresholds; a run over containers of one token each
\* writes nothing.
C16_EmptySet ==
    /\ (last.called /\ NothingLetIn) =>
          /\ last.outcome.emitted = <<>>
          /\ last.outcome.step \in {"gate", "filter"}
    /\ (/\ pc = "returned"
        /\ ~RangeUnset(options)
        /\ \A i \in 1..Len(containers) : Len(containers[i].tokens) = 1)
       => output = <<>>

\* A token past the gate with a window that is not empty, nothing let in and
\* thresholds that the empty sum 0 reaches.
C16_Witness ==
    /\ last.called
    /\ last.outcome.gate = "true"
    /\ last.outcome.threw = "no"
    /\ last.testTokens # <<>>
    /\ NothingLetIn
    /\ last.condition.warning <= 0
    /\ last.condition.error <= 0
    /\ last.outcome.emitted = <<>>

\* C19: with error < warning, a score below warning writes nothing, also
\* when it is at or above error; a score from warning on writes one error;
\* no warning is written.
C19_ErrorBelowWarning ==
    (Scored /\ last.condition.error < last.condition.warning) =>
        LET tokenScore == last.outcome.tokenScore
            emitted == last.outcome.emitted
        IN  /\ tokenScore < last.condition.warning => emitted = <<>>
            /\ tokenScore >= last.condition.warning =>
                  /\ Len(emitted) = 1
                  /\ emitted[1].severity = "error"
            /\ \A i \in 1..Len(emitted) : emitted[i].severity # "warning"
            /\ \A i \in 1..Len(output) : output[i].severity # "warning"

\* A score between error and warning that writes nothing.
C19_Witness ==
    /\ Scored
    /\ last.condition.error < last.condition.warning
    /\ last.outcome.tokenScore >= last.condition.error
    /\ last.outcome.tokenScore < last.condition.warning
    /\ last.outcome.emitted = <<>>

\* A score from warning on, above error, that writes an error.
C19_WitnessError ==
    /\ Scored
    /\ last.condition.error < last.condition.warning
    /\ last.outcome.tokenScore >= last.condition.warning
    /\ last.outcome.emitted # <<>>

\* Where the loops of process are: container, token, condition.
Triple == <<containerIndex, tokenPos, conditionPos>>

LexLess(a, b) ==
    \/ a[1] < b[1]
    \/ a[1] = b[1] /\ a[2] < b[2]
    \/ a[1] = b[1] /\ a[2] = b[2] /\ a[3] < b[3]

\* C17: past the check of the range, the loops go through the (container,
\* token, condition) triples in increasing order and never come back to one;
\* the sink only grows at its end, by one diagnostic at most for a triple,
\* and that diagnostic is on the token and on the condition of the triple.
C17_Order ==
    [][pc # "process" =>
          /\ Triple' = Triple \/ LexLess(Triple, Triple')
          /\ output' # output =>
                /\ LexLess(Triple, Triple')
                /\ Len(output') = Len(output) + 1
                /\ SubSeq(output', 1, Len(output)) = output
                /\ LET d == output'[Len(output')]
                       token == containers[containerIndex'].tokens[tokenPos']
                       condition == options.conditions[conditionPos']
                   IN  /\ d.location = token.location
                       /\ d.message.value = FieldOf(token, condition.field)]_vars

\* A finished run over two containers and two conditions: two diagnostics on
\* one token, one for each condition, and a later one on a token of the second
\* container.
C17_Witness ==
    /\ pc = "returned"
    /\ Len(containers) = 2
    /\ Len(options.conditions) = 2
    /\ \E i, j, k \in 1..Len(output) :
          /\ i < j /\ j < k
          /\ output[i].location = output[j].location
          /\ output[i].message.value =
                 FieldOf(containers[1].tokens[1], options.conditions[1].field)
          /\ output[j].message.value =
                 FieldOf(containers[1].tokens[1], options.conditions[2].field)
          /\ output[i].message.value # output[j].message.value
          /\ output[k].location.column >= containers[2].tokens[1].index

\* C18: process called twice with the same arguments leaves the options and
\* the content as they were given, ends the second time as it ended the
\* first, and has then written the diagnostics of the first call twice.
C18_Idempotent ==
    call.fn = "process" =>
        /\ options = call.options
        /\ content = call.content
        /\ (call.calls = 2 /\ pc \in {"returned", "threw"}) =>
              /\ pc = call.pc
              /\ output = call.output \o call.output

\* Two calls that returned, on a condition without filters, each with the
\* same two diagnostics or more.
C18_Witness ==
    /\ call.fn = "process"
    /\ call.calls = 2
    /\ pc = "returned"
    /\ \E c \in Range(options.conditions) : "filters" \notin DOMAIN c
    /\ Len(call.output) >= 2
    /\ output = call.output \o call.output

=============================================================================
